---- MODULE Spec2Model ----
(***************************************************************************)
(* Model of the stock data tools of StockAgent (src/tools/stock_data.py):  *)
(* symbol normalisation, the retrying HTTP session, candle retrieval, the  *)
(* trend score, news / announcement extraction and the public tool         *)
(* operations with their exception boundaries.                             *)
(*                                                                         *)
(* Strings are sequences of one-character strings.  Prices are integers    *)
(* (hundredths of a yuan); NaN stands for a cell that pd.to_numeric        *)
(* coerced to "missing".                                                   *)
(***************************************************************************)
EXTENDS Integers, Sequences, FiniteSets, TLC

VARIABLES
    pc,          \* position of the running call
    stock_code,  \* argument of _normalize_cn_symbol
    once,        \* _normalize_cn_symbol(stock_code)
    twice,       \* _normalize_cn_symbol(once)
    kline,       \* what the K-line endpoint answers to _get_candles_sina
    result,      \* what the tool operation returned to its caller
    outcomes,    \* what the endpoint did on each attempt of the current GET
    retries_left,\* Retry.total of the current GET
    response,    \* the response the session handed to _sina_request
    news_page,   \* what the company news page answers
    ann_page,    \* what the announcement page answers
    articles,    \* the URLs whose article page yields a summary
    count,       \* argument count of get_stock_news
    limit,       \* argument limit of _parse_company_news / _announcements
    parsed,      \* what _parse_company_news / _announcements returned
    called,      \* the public operation the caller invoked
    quote,       \* what the quote endpoint answers
    suggest,     \* what the suggestion endpoint answers
    fin,         \* what the financial summary page answers
    keyword,     \* argument keyword of search_stock
    period       \* argument period of get_kline_data

normVars == <<stock_code, once, twice>>

trendVars == <<kline, result>>

fetchVars == <<outcomes, retries_left, response>>

newsVars == <<news_page, ann_page, articles, count, limit, parsed>>

toolVars == <<called, quote, suggest, fin, keyword, period>>

vars == <<pc, stock_code, once, twice, kline, result, outcomes, retries_left, response,
          news_page, ann_page, articles, count, limit, parsed,
          called, quote, suggest, fin, keyword, period>>

----------------------------------------------------------------------------
(* Bounds *)

MaxLen == 3

\* closes are drawn from 0, NaN and BasePrice + k * PriceStep, k \in 0..MaxLevel
MaxLevel == 2

\* series lengths go up to MinPeriods + MaxExtra
MaxExtra == 1

\* high = close + spread, low = close - spread, spread \in 0..MaxSpread
MaxSpread == 1

\* a listing page holds at most MaxItems list elements when one parser runs
MaxItems == 3

\* _parse_company_news / _announcements are called with limit \in 1..MaxLimit
MaxLimit == 2

\* each listing page holds at most MaxBatch elements when get_stock_news runs
MaxBatch == 2

\* get_stock_news is called with count \in -1..MaxCount
MaxCount == 4

\* a rising series gains 1..MaxStep hundredths per period
MaxStep == 3

----------------------------------------------------------------------------
(* Strings *)

Alphabet ==
    {" ", "s", "S", "h", "H", "z", "b", "j", "6", "9", "0", "3", "8", "4", "a", "A"}

RECURSIVE StringsUpTo(_)
StringsUpTo(n) ==
    IF n = 0 THEN {<<>>}
    ELSE LET shorter == StringsUpTo(n - 1)
         IN shorter \cup {Append(s, c) : s \in {t \in shorter : Len(t) = n - 1}, c \in Alphabet}

\* str.lower() on one character
LowerChar(c) ==
    CASE c = "S" -> "s"
      [] c = "H" -> "h"
      [] c = "A" -> "a"
      [] OTHER -> c

\* str.lower()
Lower(s) == [i \in 1..Len(s) |-> LowerChar(s[i])]

IsSpace(c) == c = " "

RECURSIVE LStrip(_)
LStrip(s) == IF s # <<>> /\ IsSpace(Head(s)) THEN LStrip(Tail(s)) ELSE s

RECURSIVE RStrip(_)
RStrip(s) ==
    IF s # <<>> /\ IsSpace(s[Len(s)]) THEN RStrip(SubSeq(s, 1, Len(s) - 1)) ELSE s

\* str.strip()
Strip(s) == RStrip(LStrip(s))

\* str.startswith(prefix)
StartsWith(s, prefix) ==
    Len(s) >= Len(prefix) /\ SubSeq(s, 1, Len(prefix)) = prefix

\* str.startswith(tuple of prefixes)
StartsWithAny(s, prefixes) == \E p \in prefixes : StartsWith(s, p)

MarketPrefixes == {<<"s", "h">>, <<"s", "z">>, <<"b", "j">>}

----------------------------------------------------------------------------
(* _normalize_cn_symbol *)

\* the prefix is put in front of the raw argument instead of the cleaned code
normalize_raw_prefixed(sc) ==
    LET code == Lower(Strip(sc))
    IN  IF StartsWithAny(code, MarketPrefixes) THEN code
        ELSE IF StartsWithAny(code, {<<"6">>, <<"9">>}) THEN <<"s", "h">> \o sc
        ELSE IF StartsWithAny(code, {<<"0">>, <<"3">>}) THEN <<"s", "z">> \o sc
        ELSE IF StartsWithAny(code, {<<"8">>, <<"4">>}) THEN <<"b", "j">> \o sc
        ELSE code

\* the fall-through returns the raw argument instead of the cleaned code
normalize_raw_fallthrough(sc) ==
    LET code == Lower(Strip(sc))
    IN  IF StartsWithAny(code, MarketPrefixes) THEN code
        ELSE IF StartsWithAny(code, {<<"6">>, <<"9">>}) THEN <<"s", "h">> \o code
        ELSE IF StartsWithAny(code, {<<"0">>, <<"3">>}) THEN <<"s", "z">> \o code
        ELSE IF StartsWithAny(code, {<<"8">>, <<"4">>}) THEN <<"b", "j">> \o code
        ELSE sc

normalize_cn_symbol(sc) ==
    LET code == Lower(Strip(sc))
    IN  IF StartsWithAny(code, MarketPrefixes) THEN code
        ELSE IF StartsWithAny(code, {<<"6">>, <<"9">>}) THEN <<"s", "h">> \o code
        ELSE IF StartsWithAny(code, {<<"0">>, <<"3">>}) THEN <<"s", "z">> \o code
        ELSE IF StartsWithAny(code, {<<"8">>, <<"4">>}) THEN <<"b", "j">> \o code
        ELSE code

----------------------------------------------------------------------------
(* Specification NormSpec: _normalize_cn_symbol applied once and again *)

NoResp == [kind |-> "none", rows |-> <<>>]

NoResult == [kind |-> "none", tool |-> "none", msg |-> "none", detail |-> "none", report |-> <<>>]

\* the variables of the parts a specification does not exercise
NormIdle == stock_code = <<>> /\ once = <<>> /\ twice = <<>>

TrendIdle == kline = NoResp /\ result = NoResult

FetchIdle ==
    /\ outcomes = <<>>
    /\ retries_left = 0
    /\ response = [kind |-> "none", status |-> 0]

ToolIdle ==
    /\ called = "none"
    /\ quote = [kind |-> "none", fields |-> <<>>]
    /\ suggest = [kind |-> "none", entries |-> <<>>]
    /\ fin = [kind |-> "none", periods |-> 0, rows |-> <<>>, summary |-> 0]
    /\ keyword = <<>>
    /\ period = "daily"

NewsIdle ==
    /\ news_page = [kind |-> "none", elems |-> <<>>]
    /\ ann_page = [kind |-> "none", elems |-> <<>>]
    /\ articles = {}
    /\ count = 0
    /\ limit = 0
    /\ parsed = <<>>

NormInit ==
    /\ pc = "norm_call"
    /\ stock_code \in StringsUpTo(MaxLen)
    /\ once = <<>>
    /\ twice = <<>>
    /\ TrendIdle
    /\ FetchIdle
    /\ NewsIdle
    /\ ToolIdle

NormalizeOnce ==
    /\ pc = "norm_call"
    /\ once' = normalize_cn_symbol(stock_code)
    /\ pc' = "norm_once"
    /\ UNCHANGED <<stock_code, twice, trendVars, fetchVars, newsVars, toolVars>>

NormalizeTwice ==
    /\ pc = "norm_once"
    /\ twice' = normalize_cn_symbol(once)
    /\ pc' = "norm_twice"
    /\ UNCHANGED <<stock_code, once, trendVars, fetchVars, newsVars, toolVars>>

NormNext == NormalizeOnce \/ NormalizeTwice

NormSpec == NormInit /\ [][NormNext]_vars

----------------------------------------------------------------------------
(* Claims about _normalize_cn_symbol *)

\* C1: normalising an already normalised symbol changes nothing:
\* _normalize_cn_symbol(_normalize_cn_symbol(x)) = _normalize_cn_symbol(x).
C1_Idempotent == pc = "norm_twice" => twice = once

\* an input with surrounding whitespace and upper case that takes a prefix
C1_Witness ==
    /\ pc = "norm_twice"
    /\ stock_code = <<" ", "6", " ">>
    /\ once = <<"s", "h", "6">>
    /\ twice = once

\* the claim's "matches no rule": no recognised prefix, no rule digit in front
FirstIsRuleDigit(s) == s # <<>> /\ Head(s) \in {"6", "9", "0", "3", "8", "4"}

MatchesNoRule(s) == ~StartsWithAny(Lower(s), MarketPrefixes) /\ ~FirstIsRuleDigit(s)

\* C2 as stated: an input matching no rule comes back exactly as it was
\* given, and a prefixed input comes back as its lower-cased form.
C2_Original ==
    pc = "norm_once" =>
        /\ MatchesNoRule(stock_code) => once = stock_code
        /\ StartsWithAny(Lower(stock_code), MarketPrefixes) => once = Lower(stock_code)

\* C2 (amended): the result is decided on the stripped, lower-cased input;
\* when that matches no rule or already bears a prefix, the result is
\* exactly the stripped, lower-cased input with nothing added.
C2_ReturnsCleaned ==
    pc = "norm_once" =>
        LET code == Lower(Strip(stock_code))
        IN  (MatchesNoRule(code) \/ StartsWithAny(code, MarketPrefixes)) => once = code

\* an upper-case, padded input that matches no rule
C2_Witness ==
    /\ pc = "norm_once"
    /\ stock_code = <<" ", "A", "a">>
    /\ once = <<"a", "a">>

----------------------------------------------------------------------------
(* Outcomes of a call: a returned value or a raised exception *)

Return(v) == [exc |-> "none", val |-> v]

Raise(e) == [exc |-> e, val |-> <<>>]

\* a failure string returned by a tool: the fixed text and the inserted detail
Failure(tool, msg, detail) ==
    [kind |-> "failure", tool |-> tool, msg |-> msg, detail |-> detail, report |-> <<>>]

\* a report string returned by a tool, as the values it prints
Report(tool, rep) ==
    [kind |-> "report", tool |-> tool, msg |-> "none", detail |-> "none", report |-> rep]

\* an exception that leaves the tool function
Propagated(tool, e) ==
    [kind |-> "raised", tool |-> tool, msg |-> "none", detail |-> e, report |-> <<>>]

\* a tool body without its handler: the exception reaches the caller
NoHandler(outcome, tool, msg) ==
    IF outcome.exc = "none" THEN outcome.val ELSE Propagated(tool, outcome.exc)

\* try: <body>  except Exception as e: return f"<msg>: {str(e)}"
Catch(outcome, tool, msg) ==
    IF outcome.exc = "none" THEN outcome.val ELSE Failure(tool, msg, outcome.exc)

----------------------------------------------------------------------------
(* Candles: _parse_jsonp, _get_candles_sina, _get_candles *)

\* a cell that pd.to_numeric(errors="coerce") turned into a missing value
NaN == -1

MinPeriods == 60

PriceLevels == {100 + 4 * k : k \in 0..MaxLevel}

Closes == {NaN, 0} \cup PriceLevels

\* close of row i (counted from the oldest) of an n-row series: a before the
\* last 20 rows, b up to iloc[-7], d at iloc[-6], e at iloc[-5..-2], f last
CloseAt(n, i, a, b, d, e, f) ==
    LET back == n - i   \* 0 for the last row
    IN  IF back >= 20 THEN a
        ELSE IF back >= 6 THEN b
        ELSE IF back = 5 THEN d
        ELSE IF back >= 1 THEN e
        ELSE f

Candle(day, close, spread, volume) ==
    [day |-> day,
     open |-> close,
     high |-> IF close = NaN THEN NaN ELSE close + spread,
     low |-> IF close = NaN THEN NaN ELSE IF close >= spread THEN close - spread ELSE 0,
     close |-> close,
     volume |-> volume]

CandleRows(n, a, b, d, e, f, spread, vlast) ==
    [i \in 1..n |-> Candle(i, CloseAt(n, i, a, b, d, e, f), spread,
                           IF i = n THEN vlast ELSE 1000)]

\* a body of the K-line endpoint that does not yield candle rows
KlineFailure(k) == [kind |-> k, rows |-> <<>>]

KlineFailureKinds == {"net_error", "no_array", "bad_json", "bad_rows"}

\* a body of the K-line endpoint with n candle rows
KlineRows(n, a, b, d, e, f, spread, vlast) ==
    [kind |-> "rows", rows |-> CandleRows(n, a, b, d, e, f, spread, vlast)]

\* length of the synthetic rising series
SyntheticPeriods == 80

\* rows whose closes rise by step from base; high and low lie spread away
\* from the close, and row spike (if any) has its high bump further up
RisingRows(n, base, step, spread, spike, bump) ==
    [i \in 1..n |->
        [day |-> i,
         open |-> base + i * step,
         high |-> base + i * step + spread + (IF i = spike THEN bump ELSE 0),
         low |-> base + i * step - spread,
         close |-> base + i * step,
         volume |-> 1000]]

\* rows as the endpoint may send them: "swapped" has the last two rows in
\* each other's place, "repeated" has the last row under the date of the
\* row before it
Disordered(rows, mode) ==
    LET n == Len(rows)
    IN  IF mode = "swapped"
        THEN [i \in 1..n |-> IF i = n - 1 THEN rows[n] ELSE IF i = n THEN rows[n - 1] ELSE rows[i]]
        ELSE [i \in 1..n |-> IF i = n THEN [rows[n] EXCEPT !.day = rows[n - 1].day] ELSE rows[i]]

\* _sina_request: the session raises on a connection failure or exhausted retries
sina_request(resp) ==
    IF resp.kind = "net_error" THEN Raise("ConnectionError") ELSE Return(resp)

\* _parse_jsonp: no bracketed array gives [], a broken array makes json.loads raise
parse_jsonp(resp) ==
    CASE resp.kind = "no_array" -> Return(<<>>)
      [] resp.kind = "bad_json" -> Raise("JSONDecodeError")
      [] OTHER -> Return(resp.rows)

\* _get_candles_sina: the frame of the parsed rows; rows without a "day"
\* column raise KeyError when the date column is read
get_candles_sina(resp) ==
    LET text == sina_request(resp)
        rows == parse_jsonp(resp)
    IN  IF text.exc # "none" THEN Raise(text.exc)
        ELSE IF rows.exc # "none" THEN Raise(rows.exc)
        ELSE IF rows.val = <<>> THEN Return(<<>>)
        ELSE IF resp.kind = "bad_rows" THEN Raise("KeyError")
        ELSE Return(rows.val)

\* _get_candles: an empty frame is turned into an exception
get_candles(resp) ==
    LET df == get_candles_sina(resp)
    IN  IF df.exc # "none" THEN df
        ELSE IF df.val = <<>> THEN Raise("sina_data_fetch_failed")
        ELSE df

----------------------------------------------------------------------------
(* Rolling windows and comparisons on float columns with missing values *)

Column(df, name) == [i \in 1..Len(df) |-> df[i][name]]

\* Series.tail(n)
TailN(s, n) == IF Len(s) <= n THEN s ELSE SubSeq(s, Len(s) - n + 1, Len(s))

HasNaN(s) == \E i \in 1..Len(s) : s[i] = NaN

RECURSIVE SumSeq(_)
SumSeq(s) == IF s = <<>> THEN 0 ELSE Head(s) + SumSeq(Tail(s))

\* w * rolling(window=w).mean().iloc[-1]: missing when the window is not
\* full or holds a missing value
RollingSum(s, w) ==
    IF Len(s) < w \/ HasNaN(TailN(s, w)) THEN NaN ELSE SumSeq(TailN(s, w))

\* sa/wa > sb/wb on floats: False when either side is missing; the means
\* are compared exactly, by cross-multiplication of the window sums
MeanGT(sa, wa, sb, wb) == sa # NaN /\ sb # NaN /\ sa * wb > sb * wa

\* p > s/w on floats
PriceGTMean(p, s, w) == p # NaN /\ s # NaN /\ p * w > s

Max(a, b) == IF a >= b THEN a ELSE b

Min(a, b) == IF a <= b THEN a ELSE b

\* Series.max(): missing values are skipped
SeriesMax(s) ==
    LET vals == {s[i] : i \in 1..Len(s)} \ {NaN}
    IN  IF vals = {} THEN NaN ELSE CHOOSE m \in vals : \A v \in vals : v <= m

\* Series.min(): missing values are skipped
SeriesMin(s) ==
    LET vals == {s[i] : i \in 1..Len(s)} \ {NaN}
    IN  IF vals = {} THEN NaN ELSE CHOOSE m \in vals : \A v \in vals : m <= v

\* (close.iloc[-1] / close.iloc[-k-1] - 1) * 100 compared with a threshold:
\* "above" when > pct, "below" when < -pct, else "within"; a zero divisor
\* gives inf (or nan for 0/0), a missing operand gives nan
ChangeClass(close, k, pct) ==
    LET last == close[Len(close)]
        prev == close[Len(close) - k]
    IN  IF last = NaN \/ prev = NaN THEN "within"
        ELSE IF prev = 0 THEN (IF last > 0 THEN "above" ELSE "within")
        ELSE IF 100 * (last - prev) > pct * prev THEN "above"
        ELSE IF 100 * (last - prev) < (0 - pct) * prev THEN "below"
        ELSE "within"

\* MA5 > MA10 > MA20 / MA5 < MA10 < MA20 at the last row
Alignment(close) ==
    LET s5 == RollingSum(close, 5)
        s10 == RollingSum(close, 10)
        s20 == RollingSum(close, 20)
    IN  IF MeanGT(s5, 5, s10, 10) /\ MeanGT(s10, 10, s20, 20) THEN "bullish"
        ELSE IF MeanGT(s10, 10, s5, 5) /\ MeanGT(s20, 20, s10, 10) THEN "bearish"
        ELSE "mixed"

----------------------------------------------------------------------------
(* analyze_trend and calculate_indicators *)

MaAdjust(close) ==
    LET al == Alignment(close)
    IN  IF al = "bullish" THEN 15 ELSE IF al = "bearish" THEN 0 - 15 ELSE 0

Ma20Adjust(close) ==
    IF PriceGTMean(close[Len(close)], RollingSum(close, 20), 20) THEN 10 ELSE 0 - 10

Change5dAdjust(close) ==
    LET c == ChangeClass(close, 5, 5)
    IN  IF c = "above" THEN 10 ELSE IF c = "below" THEN 0 - 10 ELSE 0

\* the alignment weight typed as 150 and the clamping line left out
trend_score_unclamped(close) ==
    50 + 10 * MaAdjust(close) + Ma20Adjust(close) + Change5dAdjust(close)

\* trend_score = 50, the three adjustments, max(0, min(100, trend_score))
trend_score(close) ==
    Max(0, Min(100, 50 + MaAdjust(close) + Ma20Adjust(close) + Change5dAdjust(close)))

\* the 14-row sums behind gain / loss of the RSI: a missing delta counts 0
DeltaSum(close, sign) ==
    LET n == Len(close)
        delta(i) == IF i = 1 \/ close[i] = NaN \/ close[i - 1] = NaN THEN 0
                    ELSE sign * (close[i] - close[i - 1])
        part(i) == IF delta(i) > 0 THEN delta(i) ELSE 0
    IN  SumSeq([j \in 1..14 |-> part(n - 14 + j)])

\* resistance taken over the whole series
resistance_level_all(high) == SeriesMax(high)

\* resistance = high.tail(20).max()
resistance_level(high) == SeriesMax(TailN(high, 20))

\* support taken over the 20 rows before the last one
support_level_prior(low) == SeriesMin(TailN(SubSeq(low, 1, Len(low) - 1), 20))

\* support = low.tail(20).min()
support_level(low) == SeriesMin(TailN(low, 20))

\* rs = gain / loss, rsi = 100 - (100 / (1 + rs)) at the last row, from the
\* two 14-row sums, as the fraction num / den: a zero loss with a positive
\* gain gives rs = inf and rsi = 100, zero over zero gives nan
rsi(gain_sum, loss_sum) ==
    IF loss_sum = 0
    THEN IF gain_sum = 0 THEN [nan |-> TRUE, num |-> 0, den |-> 1]
         ELSE [nan |-> FALSE, num |-> 100, den |-> 1]
    ELSE [nan |-> FALSE, num |-> 100 * gain_sum, den |-> gain_sum + loss_sum]

analyze_trend_body(resp) ==
    LET c == get_candles(resp)
        df == c.val
        close == Column(df, "close")
    IN  IF c.exc # "none" THEN Raise(c.exc)
        ELSE IF Len(df) < MinPeriods
             THEN Return(Failure("analyze_trend", "insufficient_data_need_60_days", "none"))
        ELSE Return(Report("analyze_trend",
                [trend_score |-> trend_score(close),
                 alignment |-> Alignment(close),
                 current_price |-> close[Len(close)],
                 latest_date |-> df[Len(df)].day,
                 resistance |-> resistance_level(Column(df, "high")),
                 support |-> support_level(Column(df, "low"))]))

analyze_trend(resp) == Catch(analyze_trend_body(resp), "analyze_trend", "trend_analysis_failed")

calculate_indicators_body(resp) ==
    LET c == get_candles(resp)
        df == c.val
        close == Column(df, "close")
    IN  IF c.exc # "none" THEN Raise(c.exc)
        ELSE IF Len(df) < MinPeriods
             THEN Return(Failure("calculate_indicators", "insufficient_data_need_60_days", "none"))
        ELSE Return(Report("calculate_indicators",
                [alignment |-> Alignment(close),
                 latest_close |-> close[Len(close)],
                 latest_date |-> df[Len(df)].day,
                 ma60_sum |-> RollingSum(close, 60),
                 rsi_gain_sum |-> DeltaSum(close, 1),
                 rsi_loss_sum |-> DeltaSum(close, 0 - 1),
                 rsi |-> rsi(DeltaSum(close, 1), DeltaSum(close, 0 - 1))]))

calculate_indicators(resp) ==
    Catch(calculate_indicators_body(resp), "calculate_indicators", "indicator_calculation_failed")

----------------------------------------------------------------------------
(* Specification TrendSpec: one call of analyze_trend or calculate_indicators
   on what the K-line endpoint answers *)

TrendInit ==
    /\ pc = "tool_call"
    /\ \/ \E k \in KlineFailureKinds : kline = KlineFailure(k)
       \/ \E n \in {0, MinPeriods - 1}, a \in Closes, f \in Closes,
             sp \in 0..MaxSpread, v \in {1000, 2000} :
               kline = KlineRows(n, a, a, a, a, f, sp, v)
       \/ \E n \in MinPeriods..(MinPeriods + MaxExtra), a \in Closes, b \in Closes,
             d \in Closes, e \in Closes, f \in Closes,
             sp \in 0..MaxSpread, v \in {1000, 2000} :
               kline = KlineRows(n, a, b, d, e, f, sp, v)
       \/ \E base \in {0, 100}, step \in 1..MaxStep, sp \in 0..MaxSpread,
             spike \in {0, 55, 61, 70, SyntheticPeriods}, bump \in {0, 50} :
               kline = [kind |-> "rows",
                        rows |-> RisingRows(SyntheticPeriods, base, step, sp, spike, bump)]
       \/ \E n \in MinPeriods..(MinPeriods + MaxExtra), a \in PriceLevels, f \in PriceLevels,
             mode \in {"swapped", "repeated"} :
               kline = [kind |-> "rows",
                        rows |-> Disordered(CandleRows(n, a, a, a, a, f, 1, 1000), mode)]
    /\ result = NoResult
    /\ NormIdle
    /\ FetchIdle
    /\ NewsIdle
    /\ ToolIdle

AnalyzeTrend ==
    /\ pc = "tool_call"
    /\ result' = analyze_trend(kline)
    /\ pc' = "tool_done"
    /\ UNCHANGED <<kline, normVars, fetchVars, newsVars, toolVars>>

CalculateIndicators ==
    /\ pc = "tool_call"
    /\ result' = calculate_indicators(kline)
    /\ pc' = "tool_done"
    /\ UNCHANGED <<kline, normVars, fetchVars, newsVars, toolVars>>

TrendNext == AnalyzeTrend \/ CalculateIndicators

TrendSpec == TrendInit /\ [][TrendNext]_vars

----------------------------------------------------------------------------
(* Claims about the trend score and the minimum history *)

TrendReported == pc = "tool_done" /\ result.tool = "analyze_trend" /\ result.kind = "report"

\* C3: whenever analyze_trend reports on a series of at least 60 periods,
\* the trend score is an integer between 0 and 100.
C3_ScoreInRange ==
    TrendReported => result.report.trend_score \in 0..100

\* every rule fires upwards: bullish alignment, price above MA20, 5-day gain over 5%
C3_Witness ==
    /\ TrendReported
    /\ Len(kline.rows) >= MinPeriods
    /\ result.report.alignment = "bullish"
    /\ ChangeClass(Column(kline.rows, "close"), 5, 5) = "above"
    /\ result.report.trend_score = 85

\* the score the claim describes: MA alignment, MA20, MA60, 5-day return and
\* a volume term signed by the 5-day return, clamped to 0..100
ClaimedScore(df) ==
    LET close == Column(df, "close")
        volume == Column(df, "volume")
        c == IF PriceGTMean(close[Len(close)], RollingSum(close, 60), 60) THEN 10 ELSE 0 - 10
        heavy == 2 * 20 * volume[Len(volume)] > 3 * SumSeq(TailN(volume, 20))
        dir == ChangeClass(close, 5, 0)
        e == IF ~heavy THEN 0 ELSE IF dir = "above" THEN 5 ELSE IF dir = "below" THEN 0 - 5 ELSE 0
    IN  Max(0, Min(100, 50 + MaAdjust(close) + Ma20Adjust(close) + c + Change5dAdjust(close) + e))

\* C4: the reported trend score is clamp(50 + a + b + c + d + e, 0, 100) with
\* a the MA alignment term, b the MA20 term, c the MA60 term, d the 5-day
\* return term and e the volume term.
C4_ScoreFormula ==
    TrendReported => result.report.trend_score = ClaimedScore(kline.rows)

InsufficientData(r) == r.kind = "failure" /\ r.msg = "insufficient_data_need_60_days"

\* C5: a fetched candle series of fewer than 60 periods (zero included) makes
\* both tools return the failure that states the 60-period requirement, and a
\* series of 60 or more periods makes them return a report.
C5_ShortSeriesInsufficient ==
    (pc = "tool_done" /\ kline.kind = "rows") =>
        IF Len(kline.rows) < MinPeriods THEN InsufficientData(result)
        ELSE result.kind = "report"

----------------------------------------------------------------------------
(* The retrying session: _build_session, _sina_request *)

\* Retry(total=3): the number of retries allowed after the first attempt
RetryTotal == 3

\* Retry(status_forcelist=[429, 500, 502, 503, 504])
StatusForcelist == {429, 500, 502, 503, 504}

\* what an endpoint can do with one attempt: answer with a status or fail
\* at connection level
Status(code) == [kind |-> "status", status |-> code]

ConnError == [kind |-> "conn_error", status |-> 0]

NoResponse == [kind |-> "none", status |-> 0]

EndpointOutcomes == {Status(c) : c \in {200, 404} \cup StatusForcelist} \cup {ConnError}

\* every outcome asks for another attempt
is_retry_any(outcome) == TRUE

\* the adapter asks for another attempt after a connection-level failure or
\* a response whose status is in the forcelist (the method is always GET)
is_retry(outcome) == outcome.kind = "conn_error" \/ outcome.status \in StatusForcelist

\* Retry.is_exhausted() after Retry.increment()
is_exhausted(total) == total < 0

FetchInit ==
    /\ pc = "fetch_call"
    /\ outcomes = <<>>
    /\ retries_left = 0
    /\ response = NoResponse
    /\ NormIdle
    /\ TrendIdle
    /\ NewsIdle
    /\ ToolIdle

\* _sina_request calls _SESSION.get with the mounted Retry policy
SinaRequest ==
    /\ pc = "fetch_call"
    /\ retries_left' = RetryTotal
    /\ pc' = "fetch_attempt"
    /\ UNCHANGED <<outcomes, response, normVars, trendVars, newsVars, toolVars>>

\* an attempt whose outcome is not retried: the response is handed over,
\* whatever its status (there is no raise_for_status)
AttemptDelivered ==
    /\ pc = "fetch_attempt"
    /\ \E o \in EndpointOutcomes :
        /\ ~is_retry(o)
        /\ outcomes' = Append(outcomes, o)
        /\ response' = o
    /\ pc' = "fetch_delivered"
    /\ UNCHANGED <<retries_left, normVars, trendVars, newsVars, toolVars>>

\* an attempt whose outcome is retried while the budget lasts
AttemptRetried ==
    /\ pc = "fetch_attempt"
    /\ \E o \in EndpointOutcomes :
        /\ is_retry(o)
        /\ outcomes' = Append(outcomes, o)
    /\ ~is_exhausted(retries_left - 1)
    /\ retries_left' = retries_left - 1
    /\ UNCHANGED <<pc, response, normVars, trendVars, newsVars, toolVars>>

\* an attempt whose outcome would be retried but the budget is used up:
\* MaxRetryError, which requests raises as RetryError / ConnectionError
AttemptExhausted ==
    /\ pc = "fetch_attempt"
    /\ \E o \in EndpointOutcomes :
        /\ is_retry(o)
        /\ outcomes' = Append(outcomes, o)
    /\ is_exhausted(retries_left - 1)
    /\ retries_left' = retries_left - 1
    /\ pc' = "fetch_raised"
    /\ UNCHANGED <<response, normVars, trendVars, newsVars, toolVars>>

FetchNext == SinaRequest \/ AttemptDelivered \/ AttemptRetried \/ AttemptExhausted

FetchSpec == FetchInit /\ [][FetchNext]_vars

----------------------------------------------------------------------------
(* Claims about the retry policy *)

\* the attempts made so far for the current GET
Attempts == Len(outcomes)

FetchOver == pc \in {"fetch_delivered", "fetch_raised"}

\* every attempt but the last had a retryable outcome; two retryable
\* failures followed by a success deliver that success on the third
\* attempt; a first non-retryable status ends the request after one attempt
RetryDiscipline ==
    /\ \A i \in 1..(Attempts - 1) :
            outcomes[i] = ConnError \/ outcomes[i].status \in StatusForcelist
    /\ (Attempts >= 3 /\ outcomes[1].status \in StatusForcelist
            /\ outcomes[2].status \in StatusForcelist /\ outcomes[3] = Status(200))
          => (Attempts = 3 /\ pc = "fetch_delivered" /\ response = Status(200))
    /\ (Attempts >= 1 /\ outcomes[1].kind = "status" /\ outcomes[1].status \notin StatusForcelist)
          => (Attempts = 1 /\ pc = "fetch_delivered" /\ response = outcomes[1])

\* C7 as stated: a GET is attempted at most 3 times in total, and only
\* retryable outcomes lead to a further attempt.
C7_Original == Attempts <= 3 /\ RetryDiscipline

\* C7 (amended): a GET is attempted at most 4 times in total (the first
\* attempt and up to Retry.total = 3 retries), and only retryable outcomes
\* lead to a further attempt.
C7_AtMostFourAttempts == Attempts <= 1 + RetryTotal /\ RetryDiscipline

\* three retryable failures, then the successful payload on the fourth attempt
C7_Witness ==
    /\ pc = "fetch_delivered"
    /\ outcomes = <<Status(503), ConnError, Status(429), Status(200)>>
    /\ retries_left = 0
    /\ response = Status(200)

----------------------------------------------------------------------------
(* News and announcements: _parse_company_news, _parse_company_announcements,
   _extract_article_summary, _strip_summaries *)

RECURSIVE SeqsUpTo(_, _)
SeqsUpTo(S, n) ==
    IF n = 0 THEN {<<>>}
    ELSE LET shorter == SeqsUpTo(S, n - 1)
         IN shorter \cup {Append(s, x) : s \in {t \in shorter : Len(t) = n - 1}, x \in S}

\* a text and its len()
Title(text, n) == [text |-> text, length |-> n]

Url(host, path) == [host |-> host, path |-> path]

\* href attribute: "abs" starts with http, "rel" starts with "/", "other" is
\* anything else that is not empty, "empty" is ""
Href(kind, host, path) == [kind |-> kind, host |-> host, path |-> path]

\* an li of the news page or a tr of the announcement table: whether it has
\* an <a href>, how many <td> it has, the anchor text, the href, the date text
Elem(anchor, cells, title, href, date) ==
    [anchor |-> anchor, cells |-> cells, title |-> title, href |-> href, date |-> date]

NewsElems ==
    {Elem(TRUE, 0, Title("news one", 8), Href("abs", "finance.sina.com.cn", "/a"), "2024-01-02"),
     Elem(TRUE, 0, Title("news two", 8), Href("rel", "", "/a"), ""),
     Elem(TRUE, 0, Title("news three", 10), Href("abs", "other.example", "/b"), "2024-01-03"),
     Elem(TRUE, 0, Title("abc", 3), Href("abs", "finance.sina.com.cn", "/c"), ""),
     Elem(FALSE, 0, Title("", 0), Href("empty", "", ""), ""),
     Elem(TRUE, 0, Title("news four", 9), Href("other", "", "javascript"), "")}

AnnElems ==
    {Elem(TRUE, 2, Title("ann one", 7), Href("rel", "", "/x"), "2024-02-01"),
     Elem(TRUE, 1, Title("", 0), Href("abs", "vip.stock.finance.sina.com.cn", "/y"), ""),
     Elem(TRUE, 2, Title("ann three", 9), Href("abs", "vip.stock.finance.sina.com.cn", "/x"), "2024-02-03"),
     Elem(FALSE, 2, Title("", 0), Href("empty", "", ""), ""),
     Elem(TRUE, 2, Title("ann five", 8), Href("other", "", "javascript"), ""),
     Elem(TRUE, 2, Title("ann six", 7), Href("empty", "", ""), "2024-02-06")}

ArticleUrls ==
    {Url("finance.sina.com.cn", "/a"), Url("other.example", "/b"),
     Url("vip.stock.finance.sina.com.cn", "/x"), Url("vip.stock.finance.sina.com.cn", "/y")}

HtmlPage(elems) == [kind |-> "html", elems |-> elems]

FailedPage == [kind |-> "net_error", elems |-> <<>>]

\* href.startswith("/") gets the site put in front; the result is the URL
AbsUrl(href, site) ==
    IF href.kind = "rel" THEN Url(site, href.path) ELSE Url(href.host, href.path)

Item(title, url, date, summary) ==
    [title |-> title, url |-> url, date |-> date, summary |-> summary]

\* the extraction loop of _parse_company_news
RECURSIVE ExtractNews(_)
ExtractNews(elems) ==
    IF elems = <<>> THEN <<>>
    ELSE LET li == Head(elems)
             rest == ExtractNews(Tail(elems))
         IN  IF ~li.anchor THEN rest
             ELSE IF li.title.length < 4 THEN rest
             ELSE IF li.href.kind \notin {"abs", "rel"} THEN rest
             ELSE <<Item(li.title, AbsUrl(li.href, "finance.sina.com.cn"), li.date, "")>> \o rest

\* the extraction loop of _parse_company_announcements
RECURSIVE ExtractAnnouncements(_)
ExtractAnnouncements(elems) ==
    IF elems = <<>> THEN <<>>
    ELSE LET row == Head(elems)
             rest == ExtractAnnouncements(Tail(elems))
             date_text == IF row.cells >= 2 THEN row.date ELSE ""
         IN  IF ~row.anchor \/ row.cells = 0 THEN rest
             ELSE IF row.href.kind = "other" THEN rest
             ELSE <<Item(row.title, AbsUrl(row.href, "vip.stock.finance.sina.com.cn"),
                         date_text, "")>> \o rest

\* the unique / seen loop with its break
RECURSIVE DedupLoop(_, _, _, _)
DedupLoop(items, seen, unique, lim) ==
    IF items = <<>> THEN unique
    ELSE LET item == Head(items)
         IN  IF item.url \in seen THEN DedupLoop(Tail(items), seen, unique, lim)
             ELSE IF Len(unique) + 1 >= lim THEN Append(unique, item)
             ELSE DedupLoop(Tail(items), seen \cup {item.url}, Append(unique, item), lim)

\* the cap is taken on the raw list, before duplicates are dropped
cap_then_dedup(items, lim) ==
    DedupLoop(SubSeq(items, 1, Min(lim, Len(items))), {}, <<>>, lim)

dedup_and_cap(items, lim) == DedupLoop(items, {}, <<>>, lim)

\* _extract_article_summary: "" when the fetch raises or nothing is found
extract_article_summary(url, arts) == IF url \in arts THEN "abstract" ELSE ""

WithSummaries(unique, arts) ==
    [i \in 1..Len(unique) |->
        [unique[i] EXCEPT !.summary = extract_article_summary(unique[i].url, arts)]]

parse_company_news(page, lim, arts) ==
    IF page.kind = "net_error" THEN Raise("ConnectionError")
    ELSE Return(WithSummaries(dedup_and_cap(ExtractNews(page.elems), lim), arts))

parse_company_announcements(page, lim, arts) ==
    IF page.kind = "net_error" THEN Raise("ConnectionError")
    ELSE Return(WithSummaries(dedup_and_cap(ExtractAnnouncements(page.elems), lim), arts))

HasTitle(item) == item.title.length > 0

\* _strip_summaries: title, url and date of the items that have a title
strip_summaries(items) ==
    LET kept == SelectSeq(items, HasTitle)
    IN  [i \in 1..Len(kept) |-> [kept[i] EXCEPT !.summary = ""]]

----------------------------------------------------------------------------
(* Specification ParseSpec: one call of _parse_company_news or of
   _parse_company_announcements *)

ParseInit ==
    /\ pc = "parse_call"
    /\ limit \in 1..MaxLimit
    /\ articles \in SUBSET ArticleUrls
    /\ \/ /\ news_page \in {HtmlPage(e) : e \in SeqsUpTo(NewsElems, MaxItems)} \cup {FailedPage}
          /\ ann_page = [kind |-> "none", elems |-> <<>>]
       \/ /\ ann_page \in {HtmlPage(e) : e \in SeqsUpTo(AnnElems, MaxItems)} \cup {FailedPage}
          /\ news_page = [kind |-> "none", elems |-> <<>>]
    /\ count = 0
    /\ parsed = <<>>
    /\ NormIdle
    /\ TrendIdle
    /\ FetchIdle
    /\ ToolIdle

ParseCompanyNews ==
    /\ pc = "parse_call"
    /\ news_page.kind # "none"
    /\ LET r == parse_company_news(news_page, limit, articles)
       IN  /\ parsed' = r.val
           /\ pc' = IF r.exc = "none" THEN "parse_news_done" ELSE "parse_raised"
    /\ UNCHANGED <<news_page, ann_page, articles, count, limit, normVars, trendVars, fetchVars, toolVars>>

ParseCompanyAnnouncements ==
    /\ pc = "parse_call"
    /\ ann_page.kind # "none"
    /\ LET r == parse_company_announcements(ann_page, limit, articles)
       IN  /\ parsed' = r.val
           /\ pc' = IF r.exc = "none" THEN "parse_ann_done" ELSE "parse_raised"
    /\ UNCHANGED <<news_page, ann_page, articles, count, limit, normVars, trendVars, fetchVars, toolVars>>

ParseNext == ParseCompanyNews \/ ParseCompanyAnnouncements

ParseSpec == ParseInit /\ [][ParseNext]_vars

----------------------------------------------------------------------------
(* Claims about de-duplication *)

\* the items whose URL no earlier item has, in document order
RECURSIVE FirstOccurrences(_, _)
FirstOccurrences(items, k) ==
    IF k = 0 THEN <<>>
    ELSE LET before == FirstOccurrences(items, k - 1)
         IN  IF \E j \in 1..(k - 1) : items[j].url = items[k].url THEN before
             ELSE Append(before, items[k])

\* the list the parser worked on
ExtractedItems ==
    IF pc = "parse_news_done" THEN ExtractNews(news_page.elems)
    ELSE ExtractAnnouncements(ann_page.elems)

WithoutSummaries(items) == [i \in 1..Len(items) |-> [items[i] EXCEPT !.summary = ""]]

\* C8: the list a parser returns has no two items with the same URL, has at
\* most limit items, and is the first limit distinct-URL items of the
\* extracted list in document order.
C8_DedupBeforeCap ==
    pc \in {"parse_news_done", "parse_ann_done"} =>
        LET distinct == FirstOccurrences(ExtractedItems, Len(ExtractedItems))
        IN  /\ \A i, j \in 1..Len(parsed) : parsed[i].url = parsed[j].url => i = j
            /\ Len(parsed) <= limit
            /\ WithoutSummaries(parsed) = SubSeq(distinct, 1, Min(limit, Len(distinct)))

\* a duplicate among the first two elements does not use up the cap of 2
C8_Witness ==
    /\ pc = "parse_news_done"
    /\ limit = 2
    /\ Len(ExtractedItems) = 3
    /\ ExtractedItems[1].url = ExtractedItems[2].url
    /\ Len(parsed) = 2
    /\ parsed[2].url = ExtractedItems[3].url

----------------------------------------------------------------------------
(* get_stock_news *)

\* news_count = max(1, count // 2)
NewsCount(cnt) == Max(1, cnt \div 2)

\* ann_count = max(1, count - news_count)
AnnCount(cnt) == Max(1, cnt - NewsCount(cnt))

\* items and all(not i.get("summary") for i in items)
AllSummariesMissing(items) ==
    items # <<>> /\ \A i \in 1..Len(items) : items[i].summary = ""

get_stock_news_body(cnt, npage, apage, arts) ==
    LET news == parse_company_news(npage, NewsCount(cnt), arts)
        anns == parse_company_announcements(apage, AnnCount(cnt), arts)
        news_failed == AllSummariesMissing(news.val)
        ann_failed == AllSummariesMissing(anns.val)
        news_items == IF news_failed THEN strip_summaries(news.val) ELSE news.val
        ann_items == IF ann_failed THEN strip_summaries(anns.val) ELSE anns.val
    IN  IF news.exc # "none" THEN Raise(news.exc)
        ELSE IF anns.exc # "none" THEN Raise(anns.exc)
        ELSE IF news_items = <<>> /\ ann_items = <<>>
             THEN Return(Failure("get_stock_news", "news_or_announcements_not_found", "none"))
        ELSE Return(Report("get_stock_news",
                [news |-> news_items,
                 announcements |-> ann_items,
                 summary_failed |-> news_failed \/ ann_failed,
                 total |-> Len(news_items) + Len(ann_items)]))

get_stock_news(cnt, npage, apage, arts) ==
    Catch(get_stock_news_body(cnt, npage, apage, arts), "get_stock_news", "news_fetch_failed")

----------------------------------------------------------------------------
(* Specification NewsSpec: one call of get_stock_news *)

\* the elements that reach the item lists in different ways
BatchNewsElems == {e \in NewsElems : e.title.length # 3 /\ e.href.kind # "other"}

BatchAnnElems == {e \in AnnElems : e.href.kind # "other" /\ (e.anchor \/ e.cells = 0)}

NewsInit ==
    /\ pc = "news_call"
    /\ count \in (0 - 1)..MaxCount
    /\ news_page \in {HtmlPage(e) : e \in SeqsUpTo(BatchNewsElems, MaxBatch)} \cup {FailedPage}
    /\ ann_page \in {HtmlPage(e) : e \in SeqsUpTo(BatchAnnElems, MaxBatch)} \cup {FailedPage}
    /\ articles \in SUBSET ArticleUrls
    /\ limit = 0
    /\ parsed = <<>>
    /\ result = NoResult
    /\ kline = NoResp
    /\ NormIdle
    /\ FetchIdle
    /\ ToolIdle

GetStockNews ==
    /\ pc = "news_call"
    /\ result' = get_stock_news(count, news_page, ann_page, articles)
    /\ pc' = "news_done"
    /\ UNCHANGED <<kline, newsVars, normVars, fetchVars, toolVars>>

NewsNext == GetStockNews

NewsSpec == NewsInit /\ [][NewsNext]_vars

----------------------------------------------------------------------------
(* Claims about get_stock_news *)

\* the batches the two parsers handed to get_stock_news
NewsBatch == parse_company_news(news_page, NewsCount(count), articles)

AnnBatch == parse_company_announcements(ann_page, AnnCount(count), articles)

\* C9: when both listings were parsed and a non-empty batch has no summary
\* at all, get_stock_news returns a report that lists every item of that
\* batch as a title-only record and carries the degradation notice.
C9_DegradedBatchReported ==
    (pc = "news_done" /\ NewsBatch.exc = "none" /\ AnnBatch.exc = "none") =>
        /\ AllSummariesMissing(NewsBatch.val) =>
              /\ result.kind = "report"
              /\ result.report.summary_failed
              /\ result.report.news = WithoutSummaries(NewsBatch.val)
        /\ AllSummariesMissing(AnnBatch.val) =>
              /\ result.kind = "report"
              /\ result.report.summary_failed
              /\ result.report.announcements = WithoutSummaries(AnnBatch.val)

\* C10: a report of get_stock_news lists at most count items, news and
\* announcements together, and its footer total is the number listed.
C10_AtMostCountItems ==
    (pc = "news_done" /\ result.kind = "report") =>
        /\ Len(result.report.news) + Len(result.report.announcements) <= count
        /\ result.report.total = Len(result.report.news) + Len(result.report.announcements)

----------------------------------------------------------------------------
(* The other public operations: get_realtime_quote, get_stock_info,
   search_stock, get_kline_data, get_financial_data *)

\* one comma-separated field of the quote record: its position in the record
\* and what float() makes of its text ("num" a finite number, "nan" the text
\* nan, which float() accepts and int() rejects, "text" and "empty" rejected)
Field(pos, kind) == [pos |-> pos, kind |-> kind]

\* quote endpoint: "net_error", "no_match" (no ="..." in the body) or
\* "record" with the fields that match.group(1).split(",") yields; the
\* record ="" splits into the single empty field
QuoteResp(kind, fields) == [kind |-> kind, fields |-> fields]

EmptyRecord == <<Field(0, "empty")>>

\* float(field) raises ValueError on a text that is not a number
FloatFails(f) == f.kind \in {"text", "empty"}

\* the length test lets a record of 31 fields through, and fields[31] raises
realtime_quote_body_short(q) ==
    LET f == q.fields
    IN  IF q.kind = "net_error" THEN Raise("ConnectionError")
        ELSE IF q.kind = "no_match" \/ f = EmptyRecord
             THEN Return(Failure("get_realtime_quote", "no_quote_data", "none"))
        ELSE IF Len(f) < 31
             THEN Return(Failure("get_realtime_quote", "quote_format_error", "none"))
        ELSE IF \E i \in {2, 3, 4, 5, 6, 9, 10} : FloatFails(f[i]) THEN Raise("ValueError")
        ELSE IF Len(f) < 32 THEN Raise("IndexError")
        ELSE IF f[9].kind = "nan" THEN Raise("ValueError")
        ELSE Return(Report("get_realtime_quote",
                [name |-> f[1], open |-> f[2], prev_close |-> f[3], current |-> f[4],
                 high |-> f[5], low |-> f[6], volume |-> f[9], amount |-> f[10],
                 date |-> f[31], time |-> f[32]]))

\* the try body of _get_realtime_quote_sina: fields[k] of the source is
\* f[k + 1] here; int(volume) raises ValueError on nan
realtime_quote_body(q) ==
    LET f == q.fields
    IN  IF q.kind = "net_error" THEN Raise("ConnectionError")
        ELSE IF q.kind = "no_match" \/ f = EmptyRecord
             THEN Return(Failure("get_realtime_quote", "no_quote_data", "none"))
        ELSE IF Len(f) < 32
             THEN Return(Failure("get_realtime_quote", "quote_format_error", "none"))
        ELSE IF \E i \in {2, 3, 4, 5, 6, 9, 10} : FloatFails(f[i]) THEN Raise("ValueError")
        ELSE IF f[9].kind = "nan" THEN Raise("ValueError")
        ELSE Return(Report("get_realtime_quote",
                [name |-> f[1], open |-> f[2], prev_close |-> f[3], current |-> f[4],
                 high |-> f[5], low |-> f[6], volume |-> f[9], amount |-> f[10],
                 date |-> f[31], time |-> f[32]]))

\* _get_realtime_quote_sina, which get_realtime_quote returns as is
get_realtime_quote(q) ==
    Catch(realtime_quote_body(q), "get_realtime_quote", "quote_fetch_failed")

\* get_stock_info: the name is the code itself, the quote text is embedded
get_stock_info(q) ==
    Catch(Return(Report("get_stock_info", [quote_text |-> get_realtime_quote(q)])),
          "get_stock_info", "stock_info_failed")

\* suggestion endpoint: "net_error", "no_match" or "payload" with entries
\* separated by ";", each given by its number of comma-separated parts
SuggestResp(kind, entries) == [kind |-> kind, entries |-> entries]

\* _parse_sina_suggest: the entries with at least two parts
parse_sina_suggest(sg) ==
    IF sg.kind = "no_match" THEN <<>>
    ELSE LET TwoParts(n) == n >= 2 IN SelectSeq(sg.entries, TwoParts)

search_stock_body(kw, sg) ==
    LET key == Strip(kw)
        results == parse_sina_suggest(sg)
    IN  IF key = <<>> THEN Return(Failure("search_stock", "invalid_keyword", "none"))
        ELSE IF sg.kind = "net_error" THEN Raise("ConnectionError")
        ELSE IF results = <<>> THEN Return(Failure("search_stock", "no_stock_found", "none"))
        ELSE Return(Report("search_stock",
                [rows |-> SubSeq(results, 1, Min(10, Len(results))),
                 total |-> Min(Len(results), 10)]))

search_stock(kw, sg) == Catch(search_stock_body(kw, sg), "search_stock", "search_failed")

\* df.sort_values(date): row i goes to the position given by the number of
\* rows that come before it (earlier day, or same day and earlier in the frame)
SortByDay(df) ==
    LET Rank(i) == Cardinality({j \in 1..Len(df) :
                        df[j].day < df[i].day \/ (df[j].day = df[i].day /\ j <= i)})
    IN  [k \in 1..Len(df) |-> df[CHOOSE i \in 1..Len(df) : Rank(i) = k]]

\* first / last valid value of a column inside one resampling bucket
FirstValid(s) ==
    IF \A i \in 1..Len(s) : s[i] = NaN THEN NaN
    ELSE s[CHOOSE i \in 1..Len(s) : s[i] # NaN /\ \A j \in 1..(i - 1) : s[j] = NaN]

LastValid(s) ==
    IF \A i \in 1..Len(s) : s[i] = NaN THEN NaN
    ELSE s[CHOOSE i \in 1..Len(s) : s[i] # NaN /\ \A j \in (i + 1)..Len(s) : s[j] = NaN]

SumValid(s) == SumSeq([i \in 1..Len(s) |-> IF s[i] = NaN THEN 0 ELSE s[i]])

\* resample(...).agg(first, max, min, last, sum).dropna(): rows are grouped
\* in runs of size trading days; a bucket with a missing aggregate is dropped
RECURSIVE Resample(_, _, _)
Resample(df, size, b) ==
    LET InBucket(r) == (r.day - 1) \div size = b
        rows == SelectSeq(df, InBucket)
        lastBucket == (df[Len(df)].day - 1) \div size
        agg == [day |-> (b + 1) * size,
                open |-> FirstValid(Column(rows, "open")),
                high |-> SeriesMax(Column(rows, "high")),
                low |-> SeriesMin(Column(rows, "low")),
                close |-> LastValid(Column(rows, "close")),
                volume |-> SumValid(Column(rows, "volume"))]
        kept == IF rows = <<>> \/ agg.open = NaN \/ agg.high = NaN
                   \/ agg.low = NaN \/ agg.close = NaN
                THEN <<>> ELSE <<agg>>
    IN  IF b > lastBucket THEN <<>> ELSE kept \o Resample(df, size, b + 1)

get_kline_data_body(resp, per) ==
    LET c == get_candles_sina(resp)
        df == SortByDay(c.val)
        frame == IF per = "weekly" THEN Resample(df, 5, (df[1].day - 1) \div 5)
                 ELSE IF per = "monthly" THEN Resample(df, 20, (df[1].day - 1) \div 20)
                 ELSE df
        recent == TailN(frame, 10)
    IN  IF c.exc # "none" THEN Raise(c.exc)
        ELSE IF c.val = <<>> THEN Return(Failure("get_kline_data", "kline_unavailable", "none"))
        ELSE IF frame = <<>> THEN Return(Failure("get_kline_data", "kline_unavailable", "none"))
        ELSE IF \E i \in 1..Len(recent) : recent[i].volume = NaN THEN Raise("ValueError")
        ELSE Return(Report("get_kline_data", [rows |-> recent]))

get_kline_data(resp, per) ==
    Catch(get_kline_data_body(resp, per), "get_kline_data", "kline_fetch_failed")

\* numbers held by float variables are kept exactly, in hundredths; every
\* cell text drawn below has at most two decimals
Scale == 100

\* _to_number returned None / a float
NoNumber == [ok |-> FALSE, val |-> 0]

Number(v) == [ok |-> TRUE, val |-> v]

IsDigit(c) == c \in {"0", "1", "2", "3", "4", "5", "6", "7", "8", "9"}

DigitVal(c) ==
    CASE c = "0" -> 0 [] c = "1" -> 1 [] c = "2" -> 2 [] c = "3" -> 3 [] c = "4" -> 4
      [] c = "5" -> 5 [] c = "6" -> 6 [] c = "7" -> 7 [] c = "8" -> 8 [] c = "9" -> 9

\* the value of a run of decimal digits
RECURSIVE DigitsVal(_)
DigitsVal(ds) ==
    IF ds = <<>> THEN 0 ELSE 10 * DigitsVal(SubSeq(ds, 1, Len(ds) - 1)) + DigitVal(ds[Len(ds)])

\* str.replace(ch, "") for each ch of chars
Without(text, chars) ==
    LET Keep(c) == c \notin chars IN SelectSeq(text, Keep)

\* the value of the digits after the point, in hundredths
FracVal(fp) ==
    IF Len(fp) = 0 THEN 0
    ELSE IF Len(fp) = 1 THEN 10 * DigitVal(fp[1])
    ELSE 10 * DigitVal(fp[1]) + DigitVal(fp[2])

AllDigits(ds) == \A i \in 1..Len(ds) : IsDigit(ds[i])

\* digits ip before and fp after the point of a text with ndots points
FloatDigits(ip, fp, ndots) ==
    IF ndots > 1 \/ ~AllDigits(ip) \/ ~AllDigits(fp) \/ Len(ip) + Len(fp) = 0 THEN NoNumber
    ELSE Number(Scale * DigitsVal(ip) + FracVal(fp))

\* where the first point stands, or one past the end
DotPos(body) ==
    IF \A i \in 1..Len(body) : body[i] # "." THEN Len(body) + 1
    ELSE CHOOSE i \in 1..Len(body) : body[i] = "." /\ \A j \in 1..(i - 1) : body[j] # "."

DotCount(body) == Cardinality({i \in 1..Len(body) : body[i] = "."})

FloatParts(body, d) ==
    FloatDigits(SubSeq(body, 1, d - 1), SubSeq(body, d + 1, Len(body)), DotCount(body))

\* the unsigned part of a float text
FloatBody(body) == FloatParts(body, DotPos(body))

Negated(n) == IF n.ok THEN Number(0 - n.val) ELSE n

FloatSigned(u) ==
    IF u # <<>> /\ Head(u) = "-" THEN Negated(FloatBody(Tail(u)))
    ELSE IF u # <<>> /\ Head(u) = "+" THEN FloatBody(Tail(u))
    ELSE FloatBody(u)

\* float(text) on decimal texts: surrounding blanks, an optional sign, digits
\* with at most one point and a digit on one side of it; anything else is a
\* ValueError, given here as NoNumber
Float(text) == FloatSigned(Strip(text))

\* the placeholders _to_number turns down before any parsing
Placeholders == {<<"-", "-">>, <<"N", "/", "A">>, <<"-">>}

\* _to_number after text = str(value).strip()
ToNumberStripped(text) ==
    IF text = <<>> \/ text \in Placeholders THEN NoNumber
    ELSE Float(Without(text, {",", "%"}))

\* _to_number
to_number(value) == ToNumberStripped(Strip(value))

NoDelta == [emitted |-> FALSE, delta |-> 0, pct_num |-> 0, pct_den |-> 1]

\* delta = n_latest - n_prev in hundredths, and pct = delta / n_prev * 100
\* as the fraction pct_num / pct_den
Change(n_latest, n_prev) ==
    [emitted |-> TRUE, delta |-> n_latest.val - n_prev.val,
     pct_num |-> 100 * (n_latest.val - n_prev.val), pct_den |-> n_prev.val]

DeltaText(n_latest, n_prev) ==
    IF n_latest.ok /\ n_prev.ok /\ n_prev.val # 0 THEN Return(Change(n_latest, n_prev))
    ELSE Return(NoDelta)

\* the guard on n_prev is left out: delta / n_prev raises on a zero n_prev
metric_delta_unguarded(latest_raw, prev_raw) ==
    IF to_number(latest_raw).ok /\ to_number(prev_raw).ok
    THEN IF to_number(prev_raw).val = 0 THEN Raise("ZeroDivisionError")
         ELSE Return(Change(to_number(latest_raw), to_number(prev_raw)))
    ELSE Return(NoDelta)

\* delta_text of one metric
metric_delta(latest_raw, prev_raw) == DeltaText(to_number(latest_raw), to_number(prev_raw))

\* one row of the best table: the first cell and the period cells after it
MetricRow(key, values) == [key |-> key, values |-> values]

\* financial summary page: "net_error" or "html" with the number of period
\* headers of the best table, its metric rows (first to last) and the number
\* of key/value rows
FinResp(kind, periods, rows, summary) ==
    [kind |-> kind, periods |-> periods, rows |-> rows, summary |-> summary]

\* three of the names in pick_keys, in their order there
PickKeys == <<"eps", "roe_pct", "net_profit">>

\* rows[key]: a later row of the same name replaces an earlier one
RowValues(rows, key) ==
    rows[CHOOSE i \in 1..Len(rows) :
            rows[i].key = key /\ \A j \in (i + 1)..Len(rows) : rows[j].key # key].values

\* the line of one metric with its change d
LineWith(key, values, d) ==
    IF d.exc # "none" THEN Raise(d.exc)
    ELSE Return([key |-> key, latest |-> values[1], prev |-> values[2], change |-> d.val])

MetricLine(key, values) == LineWith(key, values, metric_delta(values[1], values[2]))

\* result += line, unless that line or a later one raised
PrependLine(line, rest) ==
    IF line.exc # "none" THEN line
    ELSE IF rest.exc # "none" THEN rest
    ELSE Return(<<line.val>> \o rest.val)

\* the lines of the period layout, one per name of pick_keys found in rows
RECURSIVE MetricLines(_, _)
MetricLines(rows, keys) ==
    IF keys = <<>> THEN Return(<<>>)
    ELSE IF \A i \in 1..Len(rows) : rows[i].key # Head(keys) THEN MetricLines(rows, Tail(keys))
    ELSE PrependLine(MetricLine(Head(keys), RowValues(rows, Head(keys))),
                     MetricLines(rows, Tail(keys)))

\* the report of the period layout
PeriodsReport(f, lines) ==
    IF lines.exc # "none" THEN Raise(lines.exc)
    ELSE Return(Report("get_financial_data",
            [layout |-> "periods", shown_periods |-> Min(3, f.periods), lines |-> lines.val]))

get_financial_data_body(f) ==
    IF f.kind = "net_error" THEN Raise("ConnectionError")
    ELSE IF f.summary = 0 /\ f.rows = <<>>
         THEN Return(Failure("get_financial_data", "financial_data_not_found", "none"))
    ELSE IF f.periods > 0 /\ f.rows # <<>> THEN PeriodsReport(f, MetricLines(f.rows, PickKeys))
    ELSE Return(Report("get_financial_data",
            [layout |-> "summary", shown_periods |-> 0, lines |-> <<>>]))

get_financial_data(f) ==
    Catch(get_financial_data_body(f), "get_financial_data", "financial_fetch_failed")

----------------------------------------------------------------------------
(* Specification ToolSpec: the caller invokes one public operation, and the
   endpoints it reaches answer in any of the ways listed *)

\* a record of n fields: name, date and time are texts, the rest numbers,
\* except that the field at position odd (if any) has the kind given
QuoteFields(n, odd, kind) ==
    [i \in 1..n |-> Field(i - 1, IF i - 1 = odd THEN kind
                                 ELSE IF i - 1 \in {0, 30, 31} THEN "text" ELSE "num")]

QuoteResponses ==
    {QuoteResp(k, <<>>) : k \in {"net_error", "no_match"}}
    \cup {QuoteResp("record", EmptyRecord)}
    \cup {QuoteResp("record", QuoteFields(n, odd, kind)) :
            n \in {1, 31, 32, 33}, odd \in 0..10, kind \in {"text", "nan", "empty"}}

SuggestResponses ==
    {SuggestResp(k, <<>>) : k \in {"net_error", "no_match"}}
    \cup {SuggestResp("payload", e) : e \in SeqsUpTo({1, 2, 3}, 2)}

\* texts of period cells
CellTexts ==
    {<<"1", "2", ".", "5", "%">>, <<"1", "0", ".", "0", "%">>, <<"1", ",", "2", "5", "0">>,
     <<"0">>, <<"0", ".", "0", "%">>, <<"-", "5">>, <<"-", "-">>, <<"-">>,
     <<"N", "/", "A">>, <<"3", "Y">>, <<"%">>, <<"7", ".", "2", "5">>}

\* a table is kept only with at least two period headers, and each of its
\* rows has a non-empty cell for every period
FinResponses ==
    {FinResp("net_error", 0, <<>>, 0)}
    \cup {FinResp("html", 0, <<>>, sm) : sm \in {0, 4}}
    \cup {FinResp("html", 2, <<MetricRow(k, <<x, y>>)>>, sm) :
            k \in {"roe_pct", "other"}, x \in CellTexts, y \in CellTexts, sm \in {0, 4}}
    \cup {FinResp("html", 3, <<MetricRow("net_profit", <<x, <<"7", ".", "2", "5">>, <<"0">>>>),
                               MetricRow("eps", <<<<"0">>, y, <<"-">>>>),
                               MetricRow("net_profit", <<<<"-", "5">>, x, y>>)>>, 4) :
            x \in {<<"0">>, <<"1", ",", "2", "5", "0">>}, y \in {<<"3", "Y">>, <<"-", "5">>}}

ToolKlineInit ==
    \/ \E k \in KlineFailureKinds : kline = KlineFailure(k)
    \/ \E n \in {0, 3, 25, MinPeriods}, a \in {NaN, 100}, f \in {NaN, 108}, v \in {NaN, 1000} :
          kline = KlineRows(n, a, a, a, a, f, 1, v)

ToolInit ==
    /\ pc = "tool_call"
    /\ result = NoResult
    /\ \/ /\ called \in {"get_stock_info", "get_realtime_quote"}
          /\ quote \in QuoteResponses
          /\ suggest = SuggestResp("none", <<>>) /\ keyword = <<>>
          /\ fin = FinResp("none", 0, <<>>, 0)
          /\ kline = NoResp /\ period = "daily"
          /\ NewsIdle
       \/ /\ called = "search_stock"
          /\ suggest \in SuggestResponses
          /\ keyword \in {<<>>, <<" ">>, <<" ", "6", "0">>}
          /\ quote = QuoteResp("none", <<>>)
          /\ fin = FinResp("none", 0, <<>>, 0)
          /\ kline = NoResp /\ period = "daily"
          /\ NewsIdle
       \/ /\ called = "get_kline_data"
          /\ ToolKlineInit
          /\ period \in {"daily", "weekly", "monthly", "yearly"}
          /\ quote = QuoteResp("none", <<>>)
          /\ suggest = SuggestResp("none", <<>>) /\ keyword = <<>>
          /\ fin = FinResp("none", 0, <<>>, 0)
          /\ NewsIdle
       \/ /\ called \in {"calculate_indicators", "analyze_trend"}
          /\ ToolKlineInit
          /\ period = "daily"
          /\ quote = QuoteResp("none", <<>>)
          /\ suggest = SuggestResp("none", <<>>) /\ keyword = <<>>
          /\ fin = FinResp("none", 0, <<>>, 0)
          /\ NewsIdle
       \/ /\ called = "get_stock_news"
          /\ count \in {0, 1, 4}
          /\ news_page \in {HtmlPage(e) : e \in SeqsUpTo(BatchNewsElems, 1)} \cup {FailedPage}
          /\ ann_page \in {HtmlPage(e) : e \in SeqsUpTo(BatchAnnElems, 1)} \cup {FailedPage}
          /\ articles \in {{}, ArticleUrls}
          /\ limit = 0 /\ parsed = <<>>
          /\ quote = QuoteResp("none", <<>>)
          /\ suggest = SuggestResp("none", <<>>) /\ keyword = <<>>
          /\ fin = FinResp("none", 0, <<>>, 0)
          /\ kline = NoResp /\ period = "daily"
       \/ /\ called = "get_financial_data"
          /\ fin \in FinResponses
          /\ quote = QuoteResp("none", <<>>)
          /\ suggest = SuggestResp("none", <<>>) /\ keyword = <<>>
          /\ kline = NoResp /\ period = "daily"
          /\ NewsIdle
    /\ NormIdle
    /\ FetchIdle

CallGetStockInfo ==
    /\ pc = "tool_call"
    /\ called = "get_stock_info"
    /\ result' = get_stock_info(quote)
    /\ pc' = "tool_done"
    /\ UNCHANGED <<kline, normVars, fetchVars, newsVars, toolVars>>

CallGetRealtimeQuote ==
    /\ pc = "tool_call"
    /\ called = "get_realtime_quote"
    /\ result' = get_realtime_quote(quote)
    /\ pc' = "tool_done"
    /\ UNCHANGED <<kline, normVars, fetchVars, newsVars, toolVars>>

CallSearchStock ==
    /\ pc = "tool_call"
    /\ called = "search_stock"
    /\ result' = search_stock(keyword, suggest)
    /\ pc' = "tool_done"
    /\ UNCHANGED <<kline, normVars, fetchVars, newsVars, toolVars>>

CallGetKlineData ==
    /\ pc = "tool_call"
    /\ called = "get_kline_data"
    /\ result' = get_kline_data(kline, period)
    /\ pc' = "tool_done"
    /\ UNCHANGED <<kline, normVars, fetchVars, newsVars, toolVars>>

CallCalculateIndicators ==
    /\ pc = "tool_call"
    /\ called = "calculate_indicators"
    /\ result' = calculate_indicators(kline)
    /\ pc' = "tool_done"
    /\ UNCHANGED <<kline, normVars, fetchVars, newsVars, toolVars>>

CallGetStockNews ==
    /\ pc = "tool_call"
    /\ called = "get_stock_news"
    /\ result' = get_stock_news(count, news_page, ann_page, articles)
    /\ pc' = "tool_done"
    /\ UNCHANGED <<kline, normVars, fetchVars, newsVars, toolVars>>

CallGetFinancialData ==
    /\ pc = "tool_call"
    /\ called = "get_financial_data"
    /\ result' = get_financial_data(fin)
    /\ pc' = "tool_done"
    /\ UNCHANGED <<kline, normVars, fetchVars, newsVars, toolVars>>

CallAnalyzeTrend ==
    /\ pc = "tool_call"
    /\ called = "analyze_trend"
    /\ result' = analyze_trend(kline)
    /\ pc' = "tool_done"
    /\ UNCHANGED <<kline, normVars, fetchVars, newsVars, toolVars>>

ToolNext ==
    \/ CallGetStockInfo
    \/ CallGetRealtimeQuote
    \/ CallSearchStock
    \/ CallGetKlineData
    \/ CallCalculateIndicators
    \/ CallGetStockNews
    \/ CallGetFinancialData
    \/ CallAnalyzeTrend

ToolSpec == ToolInit /\ [][ToolNext]_vars

----------------------------------------------------------------------------
(* Claims about the exception boundary of the public operations *)

\* C6: whatever the endpoints answer, every public operation hands its
\* caller a string, a report or a failure text; no exception leaves it.
C6_AlwaysReturnsString ==
    pc = "tool_done" => (result.tool = called /\ result.kind \in {"report", "failure"})

\* an unparsable volume makes int() raise inside get_kline_data, and the
\* caller still gets the failure text
C6_Witness ==
    /\ pc = "tool_done"
    /\ called = "get_kline_data"
    /\ get_kline_data_body(kline, period).exc = "ValueError"
    /\ result.kind = "failure"
    /\ result.msg = "kline_fetch_failed"

----------------------------------------------------------------------------
(* Claims about the quote record *)

QuoteReturned == pc = "tool_done" /\ called = "get_realtime_quote"

FormatFailure == Failure("get_realtime_quote", "quote_format_error", "none")

\* a report exists only for a record of at least 32 fields, and each value
\* it prints is the field at the stated position (0-based in the source)
ReportReadsPositions ==
    result.kind = "report" =>
        /\ quote.kind = "record"
        /\ Len(quote.fields) >= 32
        /\ result.report.name.pos = 0
        /\ result.report.open.pos = 1
        /\ result.report.prev_close.pos = 2
        /\ result.report.current.pos = 3
        /\ result.report.high.pos = 4
        /\ result.report.low.pos = 5
        /\ result.report.volume.pos = 8
        /\ result.report.amount.pos = 9
        /\ result.report.date.pos = 30
        /\ result.report.time.pos = 31

\* C11 as stated: every wrapped record that splits into fewer than 32
\* fields gets the format failure, and a report comes only from a record of
\* at least 32 fields read at the stated positions.
C11_Original ==
    QuoteReturned =>
        /\ (quote.kind = "record" /\ Len(quote.fields) < 32) => result = FormatFailure
        /\ ReportReadsPositions

\* C11 (amended): every wrapped record that is not empty and splits into
\* fewer than 32 fields gets the format failure; the empty record gets the
\* no-data failure; a report comes only from a record of at least 32 fields
\* read at the stated positions.
C11_ShortRecordRejected ==
    QuoteReturned =>
        /\ (quote.kind = "record" /\ Len(quote.fields) < 32 /\ quote.fields # EmptyRecord)
              => result = FormatFailure
        /\ (quote.kind = "record" /\ quote.fields = EmptyRecord)
              => result = Failure("get_realtime_quote", "no_quote_data", "none")
        /\ ReportReadsPositions

\* a record one field short of the 32 is turned down as badly formatted
C11_Witness ==
    /\ QuoteReturned
    /\ quote.kind = "record"
    /\ Len(quote.fields) = 31
    /\ \A i \in {2, 3, 4, 5, 6, 9, 10} : quote.fields[i].kind = "num"
    /\ result = FormatFailure

----------------------------------------------------------------------------
(* Claims about the RSI *)

IndicatorsReported ==
    pc = "tool_done" /\ result.tool = "calculate_indicators" /\ result.kind = "report"

AllClosesValid == ~HasNaN(Column(kline.rows, "close"))

\* C12: on a series of at least 60 valid closes the reported RSI(14) is a
\* defined number between 0 and 100, and it is 100 when the average loss of
\* the last 14 deltas is zero (a flat series included).
C12_RsiDefined ==
    (IndicatorsReported /\ Len(kline.rows) >= MinPeriods /\ AllClosesValid) =>
        LET r == result.report.rsi
        IN  /\ ~r.nan
            /\ 0 <= r.num /\ r.num <= 100 * r.den
            /\ result.report.rsi_loss_sum = 0 => r.num = 100 * r.den

----------------------------------------------------------------------------
(* Claims about the period-over-period change of get_financial_data *)

\* the best table was found and get_financial_data has returned
FinancialTableRead ==
    /\ pc = "tool_done"
    /\ called = "get_financial_data"
    /\ fin.kind = "html"
    /\ fin.periods > 0
    /\ fin.rows # <<>>

\* the number a cell text stands for once ',' and '%' are taken out
Coerced(text) == Float(Without(text, {",", "%"}))

TrackedKeysIn(rows) ==
    {PickKeys[i] : i \in 1..Len(PickKeys)} \cap {rows[i].key : i \in 1..Len(rows)}

\* C13: every tracked metric of the table gets its line; the line carries
\* the change (latest minus previous, and that over previous times 100)
\* exactly when both cells coerce to numbers and the previous one is not
\* zero; '12.5%' after '10.0%' gives +2.5 and +25.00%.
C13_DeltaIffNumeric ==
    FinancialTableRead =>
        /\ result.kind = "report"
        /\ \A k \in TrackedKeysIn(fin.rows) :
              \E i \in 1..Len(result.report.lines) :
                LET line == result.report.lines[i]
                    latest == Coerced(line.latest)
                    prev == Coerced(line.prev)
                IN  /\ line.key = k
                    /\ line.latest = RowValues(fin.rows, k)[1]
                    /\ line.prev = RowValues(fin.rows, k)[2]
                    /\ line.change.emitted <=> (latest.ok /\ prev.ok /\ prev.val # 0)
                    /\ line.change.emitted =>
                          /\ line.change.delta = latest.val - prev.val
                          /\ line.change.pct_num = 100 * (latest.val - prev.val)
                          /\ line.change.pct_den = prev.val
                    /\ (line.latest = <<"1", "2", ".", "5", "%">>
                            /\ line.prev = <<"1", "0", ".", "0", "%">>)
                          => /\ line.change.emitted
                             /\ 2 * line.change.delta = 5 * Scale
                             /\ line.change.pct_num = 25 * line.change.pct_den

\* the two percentages of the example, in the tracked ROE row
C13_Witness ==
    /\ FinancialTableRead
    /\ fin.rows = <<MetricRow("roe_pct", <<<<"1", "2", ".", "5", "%">>, <<"1", "0", ".", "0", "%">>>>)>>
    /\ result.kind = "report"
    /\ Len(result.report.lines) = 1
    /\ result.report.lines[1].change.emitted
    /\ result.report.lines[1].change.delta = 250

----------------------------------------------------------------------------
(* Claims about the rising series and the price levels *)

\* each candle has valid prices with low <= close <= high
CandlesWellFormed(df) ==
    \A i \in 1..Len(df) :
        /\ df[i].low # NaN /\ df[i].close # NaN /\ df[i].high # NaN
        /\ df[i].low <= df[i].close /\ df[i].close <= df[i].high

\* the closes go up by one constant positive step
ConstantStepUp(df) ==
    /\ Len(df) >= 2
    /\ df[2].close > df[1].close
    /\ \A i \in 2..Len(df) : df[i].close - df[i - 1].close = df[2].close - df[1].close

\* m is the largest high among the last 20 rows
IsMaxHighOfLast20(df, m) ==
    /\ \E i \in (Len(df) - 19)..Len(df) : df[i].high = m
    /\ \A i \in (Len(df) - 19)..Len(df) : df[i].high <= m

\* m is the smallest low among the last 20 rows
IsMinLowOfLast20(df, m) ==
    /\ \E i \in (Len(df) - 19)..Len(df) : df[i].low = m
    /\ \A i \in (Len(df) - 19)..Len(df) : df[i].low >= m

\* C14: on a series of 80 periods whose closes rise by a constant positive
\* step, with low <= close <= high in every candle, analyze_trend reports a
\* bullish MA alignment, a trend score of at least 65 and, as resistance,
\* the maximum high of the last 20 periods.
C14_RisingSeriesBullish ==
    (/\ TrendReported
     /\ Len(kline.rows) = SyntheticPeriods
     /\ ConstantStepUp(kline.rows)
     /\ CandlesWellFormed(kline.rows)) =>
        /\ result.report.alignment = "bullish"
        /\ result.report.trend_score >= 65
        /\ IsMaxHighOfLast20(kline.rows, result.report.resistance)

\* a rising series with a high outside the last 20 periods that tops every
\* high inside them
C14_Witness ==
    /\ TrendReported
    /\ Len(kline.rows) = SyntheticPeriods
    /\ ConstantStepUp(kline.rows)
    /\ CandlesWellFormed(kline.rows)
    /\ kline.rows[55].high > kline.rows[SyntheticPeriods].high
    /\ result.report.resistance = kline.rows[SyntheticPeriods].high
    /\ result.report.trend_score >= 75

\* C17: on a series of at least 60 periods with low <= close <= high in
\* every candle, analyze_trend reports support <= current price <=
\* resistance, with the current price the last close, resistance the maximum
\* high and support the minimum low of the trailing 20 periods.
C17_PriceWithinLevels ==
    (/\ TrendReported
     /\ Len(kline.rows) >= MinPeriods
     /\ CandlesWellFormed(kline.rows)) =>
        /\ result.report.current_price = kline.rows[Len(kline.rows)].close
        /\ IsMaxHighOfLast20(kline.rows, result.report.resistance)
        /\ IsMinLowOfLast20(kline.rows, result.report.support)
        /\ result.report.support <= result.report.current_price
        /\ result.report.current_price <= result.report.resistance

\* the last close has fallen below every low of the 20 periods before it
C17_Witness ==
    /\ TrendReported
    /\ Len(kline.rows) >= MinPeriods
    /\ CandlesWellFormed(kline.rows)
    /\ \A i \in (Len(kline.rows) - 20)..(Len(kline.rows) - 1) :
            kline.rows[i].low > kline.rows[Len(kline.rows)].close
    /\ result.report.support < result.report.current_price
    /\ result.report.current_price < result.report.resistance

----------------------------------------------------------------------------
(* Claims about the order of the candle series *)

\* the frame calculate_indicators and analyze_trend work on
SeriesUsed == get_candles(kline).val

\* C15: the series on which calculate_indicators and analyze_trend compute
\* their windows, latest close and latest date is strictly increasing by
\* date, without duplicate dates, whatever order and duplicates the payload
\* has; so the latest date reported is the greatest date of the payload.
C15_SeriesStrictlyIncreasing ==
    (pc = "tool_done" /\ result.kind = "report"
        /\ result.tool \in {"calculate_indicators", "analyze_trend"}) =>
        LET df == SeriesUsed
        IN  /\ \A i \in 1..(Len(df) - 1) : df[i].day < df[i + 1].day
            /\ \A i \in 1..Len(kline.rows) : kline.rows[i].day <= result.report.latest_date

----------------------------------------------------------------------------
(* Claims about K, D and J *)

RECURSIVE Pow(_, _)
Pow(b, n) == IF n = 0 THEN 1 ELSE b * Pow(b, n - 1)

\* the recurrence the claim describes, after t values of rsv, with K and D
\* held as multiples of 1 / 9^t: K_t = (2/3) K_(t-1) + (1/3) RSV_t,
\* D_t = (2/3) D_(t-1) + (1/3) K_t, K_0 = D_0 = 50
RECURSIVE ClaimedKD(_, _)
ClaimedKD(rsv, t) ==
    IF t = 0 THEN [k |-> 50, d |-> 50]
    ELSE LET p == ClaimedKD(rsv, t - 1)
         IN  [k |-> 6 * p.k + 3 * Pow(9, t - 1) * rsv[t],
              d |-> 6 * p.d + 2 * p.k + Pow(9, t - 1) * rsv[t]]

\* with RSV at 70 for 5 steps, K and D of the recurrence go up at every step
\* and stay under 70
ClaimedConvergence ==
    LET rsv == [t \in 1..5 |-> 70]
    IN  \A t \in 1..5 :
            /\ ClaimedKD(rsv, t).k > 9 * ClaimedKD(rsv, t - 1).k
            /\ ClaimedKD(rsv, t).d > 9 * ClaimedKD(rsv, t - 1).d
            /\ ClaimedKD(rsv, t).k < 70 * Pow(9, t)
            /\ ClaimedKD(rsv, t).d < 70 * Pow(9, t)

\* C16: a report of calculate_indicators carries K, D and J, derived by the
\* recurrence K_t = (2/3) K_(t-1) + (1/3) RSV_t, D_t = (2/3) D_(t-1) +
\* (1/3) K_t from K_0 = D_0 = 50, with J = 3K - 2D; on an RSV of 70 for 5
\* steps K and D rise strictly and stay below 70.
C16_KdjDerived ==
    IndicatorsReported =>
        /\ {"k", "d", "j"} \subseteq DOMAIN result.report
        /\ result.report.j = 3 * result.report.k - 2 * result.report.d
        /\ ClaimedConvergence

====
